---- MODULE Spec2Model ----
(***************************************************************************)
(* A model of src/script.js: the hymn browser's annotation collections     *)
(* (favorites, notes, moods), their localStorage slots, import / export /  *)
(* reset, and the four list containers rendered from them.                 *)
(*                                                                         *)
(* JavaScript values are tagged records.  A JavaScript string is a         *)
(* sequence of characters; a JSON text is such a string whose characters   *)
(* are its lexical tokens.  Object keys are atomic strings.                *)
(***************************************************************************)
EXTENDS Integers, Sequences, FiniteSets, Bags, TLC

\* ------------------------------------------------------------------------
\* JavaScript values
\* ------------------------------------------------------------------------
Undefined == [t |-> "undefined"]

Null == [t |-> "null"]

Num(n) == [t |-> "num", v |-> n]

Str(s) == [t |-> "str", v |-> s]

Arr(a) == [t |-> "arr", v |-> a]

Obj(f) == [t |-> "obj", v |-> f]

EmptyObj == Obj([k \in {} |-> Undefined])

\* ToBoolean: what `x || y` and `if (x)` test.
Truthy(x) ==
    CASE x.t = "undefined" -> FALSE
      [] x.t = "null" -> FALSE
      [] x.t = "num" -> x.v # 0
      [] x.t = "str" -> x.v # <<>>
      [] OTHER -> TRUE

\* a || b
OrElse(a, b) == IF Truthy(a) THEN a ELSE b

\* String(n) for the numbers the model uses (property keys, JSON numbers).
DigitStr == <<"1", "2", "3", "4", "5", "6", "7", "8", "9">>

ToKey(n) == IF n = 0 THEN "0" ELSE DigitStr[n]

IsDigitStr(c) == c = "0" \/ \E n \in 1..Len(DigitStr) : DigitStr[n] = c

ToNum(c) == IF c = "0" THEN 0 ELSE CHOOSE n \in 1..Len(DigitStr) : DigitStr[n] = c

\* Property read x[k] / x.k for a number key or a name; x is never
\* null or undefined here (callers test for that and throw).
GetProp(x, k) ==
    CASE x.t = "obj" -> IF k \in DOMAIN x.v THEN x.v[k] ELSE Undefined
      [] x.t = "str" ->
            IF IsDigitStr(k) /\ ToNum(k) < Len(x.v)
            THEN Str(<<x.v[ToNum(k) + 1]>>) ELSE Undefined
      [] x.t = "arr" ->
            IF IsDigitStr(k) /\ ToNum(k) < Len(x.v)
            THEN x.v[ToNum(k) + 1] ELSE Undefined
      [] OTHER -> Undefined

\* x[k] = val on an object: insert or overwrite the own property.
PutProp(x, k, val) ==
    Obj([j \in (DOMAIN x.v) \cup {k} |-> IF j = k THEN val ELSE x.v[j]])

\* delete x[k] on an object.
DelProp(x, k) == Obj([j \in (DOMAIN x.v) \ {k} |-> x.v[j]])

\* a === b
StrictEquals(a, b) == a.t = b.t /\ a = b

\* x[k] = val.  On a primitive the assignment is dropped by sloppy-mode code
\* and is a TypeError in strict-mode code.
SetProp(x, k, val, strictMode) ==
    IF x.t = "obj" THEN [threw |-> FALSE, val |-> PutProp(x, k, val)]
    ELSE [threw |-> strictMode, val |-> x]

\* delete x[k].  A string's index properties cannot be deleted: sloppy-mode
\* code gets false, strict-mode code a TypeError.
DeleteProp(x, k, strictMode) ==
    IF x.t = "obj" THEN [threw |-> FALSE, val |-> DelProp(x, k)]
    ELSE [threw |-> strictMode /\ GetProp(x, k).t # "undefined", val |-> x]

\* Array.isArray
IsArray(x) == x.t = "arr"

\* ------------------------------------------------------------------------
\* JSON.stringify / JSON.parse over token strings
\* ------------------------------------------------------------------------
Quote == "\""

NL == "\n"

\* Own enumerable string keys in JavaScript's order: integer keys ascending,
\* then the names in insertion order (exportData inserts favorites, notes, moods).
KeyOrder == <<"0">> \o DigitStr \o <<"favorites", "notes", "moods">>

RECURSIVE Stringify(_, _)
RECURSIVE StringifyElems(_, _, _)
RECURSIVE StringifyMembers(_, _, _, _)

StringifyElems(a, i, pretty) ==
    IF i > Len(a) THEN <<>>
    ELSE (IF i > 1 THEN <<",">> ELSE <<>>)
         \o (IF pretty THEN <<NL>> ELSE <<>>)
         \o Stringify(a[i], pretty)
         \o StringifyElems(a, i + 1, pretty)

StringifyMembers(f, i, first, pretty) ==
    IF i > Len(KeyOrder) THEN <<>>
    ELSE IF KeyOrder[i] \in DOMAIN f /\ f[KeyOrder[i]].t # "undefined"
         THEN (IF first THEN <<>> ELSE <<",">>)
              \o (IF pretty THEN <<NL>> ELSE <<>>)
              \o <<Quote, KeyOrder[i], Quote, ":">>
              \o Stringify(f[KeyOrder[i]], pretty)
              \o StringifyMembers(f, i + 1, FALSE, pretty)
         ELSE StringifyMembers(f, i + 1, first, pretty)

Stringify(x, pretty) ==
    CASE x.t = "null" -> <<"null">>
      [] x.t = "num" -> <<ToKey(x.v)>>
      [] x.t = "str" -> <<Quote>> \o x.v \o <<Quote>>
      [] x.t = "arr" ->
            IF x.v = <<>> THEN <<"[", "]">>
            ELSE <<"[">> \o StringifyElems(x.v, 1, pretty)
                 \o (IF pretty THEN <<NL>> ELSE <<>>) \o <<"]">>
      [] x.t = "obj" ->
            LET body == StringifyMembers(x.v, 1, TRUE, pretty)
            IN IF body = <<>> THEN <<"{", "}">>
               ELSE <<"{">> \o body \o (IF pretty THEN <<NL>> ELSE <<>>) \o <<"}">>

\* JSON.stringify(x)
JSONstringify(x) == Stringify(x, FALSE)

\* JSON.stringify(x, null, 2)
JSONstringifyIndent(x) == Stringify(x, TRUE)

RECURSIVE SkipWs(_)
SkipWs(ts) == IF ts # <<>> /\ ts[1] = NL THEN SkipWs(Tail(ts)) ELSE ts

Fail == [ok |-> FALSE, val |-> Undefined, rest |-> <<>>]

Ok(val, rest) == [ok |-> TRUE, val |-> val, rest |-> rest]

\* The characters of a string literal, up to its closing quote.
RECURSIVE ParseChars(_, _)
ParseChars(ts, acc) ==
    IF ts = <<>> THEN Fail
    ELSE IF ts[1] = Quote THEN Ok(Str(acc), Tail(ts))
    ELSE IF ts[1] = NL THEN Fail
    ELSE ParseChars(Tail(ts), Append(acc, ts[1]))

RECURSIVE ParseValue(_)
RECURSIVE ParseElems(_, _)
RECURSIVE ParseMembers(_, _)

\* After "[" or after ",": one element, then "," or "]".
ParseElems(ts, acc) ==
    LET r == ParseValue(ts)
        after == SkipWs(r.rest)
    IN IF ~r.ok \/ after = <<>> THEN Fail
       ELSE IF after[1] = "]" THEN Ok(Arr(Append(acc, r.val)), Tail(after))
       ELSE IF after[1] = "," THEN ParseElems(Tail(after), Append(acc, r.val))
       ELSE Fail

\* After "{" or after ",": "key" : value, then "," or "}".
ParseMembers(ts, acc) ==
    LET s == SkipWs(ts)
        k == IF s # <<>> /\ s[1] = Quote THEN ParseChars(Tail(s), <<>>) ELSE Fail
        colon == SkipWs(k.rest)
        r == IF k.ok /\ Len(k.val.v) = 1 /\ colon # <<>> /\ colon[1] = ":"
             THEN ParseValue(Tail(colon)) ELSE Fail
        after == SkipWs(r.rest)
        obj == PutProp(acc, k.val.v[1], r.val)
    IN IF ~r.ok \/ after = <<>> THEN Fail
       ELSE IF after[1] = "}" THEN Ok(obj, Tail(after))
       ELSE IF after[1] = "," THEN ParseMembers(Tail(after), obj)
       ELSE Fail

ParseValue(ts0) ==
    LET ts == SkipWs(ts0)
    IN IF ts = <<>> THEN Fail
       ELSE IF ts[1] = "null" THEN Ok(Null, Tail(ts))
       ELSE IF IsDigitStr(ts[1]) THEN Ok(Num(ToNum(ts[1])), Tail(ts))
       ELSE IF ts[1] = Quote THEN ParseChars(Tail(ts), <<>>)
       ELSE IF ts[1] = "["
            THEN LET s == SkipWs(Tail(ts))
                 IN IF s # <<>> /\ s[1] = "]" THEN Ok(Arr(<<>>), Tail(s))
                    ELSE ParseElems(Tail(ts), <<>>)
       ELSE IF ts[1] = "{"
            THEN LET s == SkipWs(Tail(ts))
                 IN IF s # <<>> /\ s[1] = "}" THEN Ok(EmptyObj, Tail(s))
                    ELSE ParseMembers(Tail(ts), EmptyObj)
       ELSE Fail

\* JSON.parse(x): x is a string or null (null is converted to the text "null").
\* ok = FALSE stands for the SyntaxError it throws.
JSONparse(x) ==
    LET r == ParseValue(IF x.t = "null" THEN <<"null">> ELSE x.v)
    IN IF r.ok /\ SkipWs(r.rest) = <<>> THEN r ELSE Fail

\* ------------------------------------------------------------------------
\* Strings and arrays
\* ------------------------------------------------------------------------
IsSpace(c) == c = " " \/ c = NL

RECURSIVE TrimStart(_)
TrimStart(s) == IF s # <<>> /\ IsSpace(s[1]) THEN TrimStart(Tail(s)) ELSE s

RECURSIVE TrimEnd(_)
TrimEnd(s) ==
    IF s # <<>> /\ IsSpace(s[Len(s)]) THEN TrimEnd(SubSeq(s, 1, Len(s) - 1)) ELSE s

\* String.prototype.trim
Trim(s) == TrimEnd(TrimStart(s))

\* Array.prototype.indexOf(Number) / String.prototype.indexOf(String(n)):
\* the 0-based position of the first match, -1 when there is none.
IndexOf(x, n) ==
    LET hit(i) == IF x.t = "arr" THEN x.v[i] = Num(n) ELSE x.v[i] = ToKey(n)
        found == {i \in 1..Len(x.v) : hit(i)}
    IN IF found = {} THEN -1
       ELSE (CHOOSE i \in found : \A j \in found : i <= j) - 1

\* Array.prototype.includes / String.prototype.includes
Includes(x, n) == IndexOf(x, n) # -1

\* a.splice(idx, 1) with a 0-based idx
Splice1(a, idx) == SubSeq(a, 1, idx) \o SubSeq(a, idx + 2, Len(a))

\* ------------------------------------------------------------------------
\* Inputs
\* ------------------------------------------------------------------------
All == <<"a", "l", "l">>

Calm == <<"c", "a", "l", "m">>

Happy == <<"h", "a", "p", "p", "y">>

\* data-mood of the .mood-option elements
MoodOptions == {All, Calm, Happy}

\* an audio reference as written in the catalog: a path relative to the page
RelativeUrl(path) == [abs |-> FALSE, path |-> path]

\* the src property read back: the reference resolved against the page
Resolve(url) == IF url.path = "" THEN url ELSE [url EXCEPT !.abs = TRUE]

\* Texts are cut to their first two characters.
\* hymns.json as fetched: ids out of sequence; hymns 7 and 3 have their lyrics
\* in a file, hymn 7 names its audio by an absolute URL
FetchedHymns ==
    << [id |-> 7, title |-> <<"G", "r">>, lyrics |-> <<>>, lyricsFile |-> TRUE,
        audio |-> Resolve(RelativeUrl("audio/hymn7.mp3"))],
       [id |-> 3, title |-> <<"H", "o">>, lyrics |-> <<>>, lyricsFile |-> TRUE,
        audio |-> RelativeUrl("audio/hymn3.mp3")],
       [id |-> 1, title |-> <<"A", "m">>, lyrics |-> <<"A", "m">>, lyricsFile |-> FALSE,
        audio |-> RelativeUrl("audio/hymn1.mp3")] >>

\* the text a lyrics file holds
LyricsFileText(id) == IF id = 7 THEN <<"W", "h">> ELSE <<"B", "l">>

\* 'Lyrics not available'
NotAvailable == <<"L", "y">>

sampleTitles == << <<"A", "m">>, <<"H", "o">>, <<"G", "r">>, <<"I", "t">>, <<"B", "l">> >>

sampleLyrics == << <<"A", "m">>, <<"O", " ">>, <<"G", "r">>, <<"W", "h">>, <<"B", "l">> >>

sampleAudio == << "audio/hymn1.mp3", "audio/hymn2.mp3", "audio/hymn3.mp3",
                  "audio/hymn4.mp3", "audio/hymn5.mp3" >>

\* every id a catalog may hold
HymnIds == 1..7

sampleHymns ==
    [i \in 1..5 |-> [id |-> i, title |-> sampleTitles[i], lyrics |-> sampleLyrics[i],
                     lyricsFile |-> FALSE, audio |-> RelativeUrl(sampleAudio[i])]]

\* what the user may have typed in the notes textarea
NoteInputs == { <<" ">>, <<" ", "x", " ">> }

Unparsable == <<"{">>

FieldsObj(fav, nts, mds) ==
    Obj([k \in {"favorites", "notes", "moods"} |->
            IF k = "favorites" THEN fav ELSE IF k = "notes" THEN nts ELSE mds])

NoteObj(id, text) == Obj([k \in {ToKey(id)} |-> Str(text)])

\* files the user may choose to import
ImportFiles ==
    { Unparsable,
      <<"null">>,
      <<"5">>,
      JSONstringify(Str(<<"x">>)),
      JSONstringify(Arr(<<Num(1)>>)),
      JSONstringify(FieldsObj(Arr(<<Num(1), Num(2)>>), Str(<<"x", "x">>), Undefined)),
      JSONstringify(FieldsObj(Arr(<<Num(1), Num(1)>>), Undefined, Undefined)),
      JSONstringify(FieldsObj(Str(<<"x">>), NoteObj(1, <<" ">>), NoteObj(3, <<"x">>))),
      JSONstringifyIndent(FieldsObj(Arr(<<Num(1), Num(2)>>), NoteObj(3, <<"x">>),
                                   NoteObj(1, Calm))) }

StoredArr == Str(JSONstringify(Arr(<<Num(3)>>)))

StoredObj(id, text) == Str(JSONstringify(NoteObj(id, text)))

\* ------------------------------------------------------------------------
\* State
\* ------------------------------------------------------------------------
VARIABLES
    pc,                 \* "load": script not yet run; "loaded": lines 59-61 done;
                        \* "running": initApp done; "crashed": the script threw
    strict,             \* the script is evaluated as strict-mode code
    storage,            \* localStorage: slot -> null or a JSON text
    hymns,              \* the catalog
    fetching,           \* loadHymns is awaiting fetch('data/hymns.json')
    favorites,
    notes,
    moods,
    currentMoodFilter,
    currentHymn,        \* null or a hymn of the catalog
    detailActive,       \* hymnDetail carries the class 'active'
    opening,            \* the openHymnDetail calls awaiting their lyrics fetch (a bag)
    lyricsCache,        \* lyricsCache: id -> text
    lyricsShown,        \* lyricsContainer.textContent
    fetches,            \* id -> lyrics fetches issued for it so far
    audioSrc,           \* audio.src
    audioPaused,        \* audio.paused
    plays,              \* audio.play() promises not yet settled
    timers,             \* setTimeout(togglePlayback) calls not yet run
    isPlaying,
    containers,         \* container -> the cards it displays
    toast,              \* the last toast message
    last,               \* the last handler run: its name, the id or file it was given
    steps               \* events handled since initApp

vars ==
    << pc, strict, storage, hymns, fetching, favorites, notes, moods,
       currentMoodFilter, currentHymn, detailActive, opening, lyricsCache,
       lyricsShown, fetches, audioSrc, audioPaused, plays, timers, isPlaying,
       containers, toast, last, steps >>

\* the detail view's text, the audio element and what is pending around them
player == << lyricsShown, fetches, audioSrc, audioPaused, plays, timers, isPlaying >>

Slots == {"favorites", "notes", "moods"}

Containers == <<"hymns", "favorites", "notes", "mood">>

\* The state a handler works on, with the effects it has had so far.
Cur ==
    [ strict |-> strict, storage |-> storage, hymns |-> hymns,
      favorites |-> favorites, notes |-> notes, moods |-> moods,
      currentMoodFilter |-> currentMoodFilter, currentHymn |-> currentHymn,
      detailActive |-> detailActive, opening |-> opening,
      lyricsCache |-> lyricsCache, lyricsShown |-> lyricsShown,
      fetches |-> fetches, audioSrc |-> audioSrc, audioPaused |-> audioPaused,
      plays |-> plays, timers |-> timers, isPlaying |-> isPlaying,
      containers |-> containers,
      toast |-> toast, download |-> Null,
      log |-> <<>>, threw |-> FALSE ]

\* The handler has run to its end (or to its uncaught throw): the new state.
Commit(m, op, id) ==
    /\ storage' = m.storage
    /\ hymns' = m.hymns
    /\ favorites' = m.favorites
    /\ notes' = m.notes
    /\ moods' = m.moods
    /\ currentMoodFilter' = m.currentMoodFilter
    /\ currentHymn' = m.currentHymn
    /\ detailActive' = m.detailActive
    /\ opening' = m.opening
    /\ lyricsCache' = m.lyricsCache
    /\ lyricsShown' = m.lyricsShown
    /\ fetches' = m.fetches
    /\ audioSrc' = m.audioSrc
    /\ audioPaused' = m.audioPaused
    /\ plays' = m.plays
    /\ timers' = m.timers
    /\ isPlaying' = m.isPlaying
    /\ containers' = m.containers
    /\ toast' = m.toast
    /\ last' = [op |-> op, id |-> id, threw |-> m.threw, log |-> m.log]
    /\ steps' = steps + 1
    /\ UNCHANGED << pc, strict >>

\* ------------------------------------------------------------------------
\* Utilities and rendering
\* ------------------------------------------------------------------------
showToast(m, message) == [m EXCEPT !.toast = message]

\* localStorage.setItem(key, text)
setItem(m, key, text) ==
    [m EXCEPT !.storage[key] = Str(text), !.log = Append(@, <<"setItem", key>>)]

\* A TypeError leaves the handler where it is.
Throw(m) == [m EXCEPT !.threw = TRUE]

createHymnCardDOM(m, hymn) ==
    [id |-> hymn.id, fav |-> Includes(m.favorites, hymn.id)]

renderHymnsList(m, hymnsArray, container) ==
    [m EXCEPT
        !.containers[container] =
            [i \in 1..Len(hymnsArray) |-> createHymnCardDOM(m, hymnsArray[i])],
        !.log = Append(@, <<"render", container>>)]

\* querySelector(`.hymn-card[data-id="${hymnId}"]`) in one container
HasCard(cards, hymnId) == \E i \in 1..Len(cards) : cards[i].id = hymnId

FirstCard(cards, hymnId) ==
    CHOOSE i \in 1..Len(cards) :
        /\ cards[i].id = hymnId
        /\ \A j \in 1..(i - 1) : cards[j].id # hymnId

\* hymns.find(h => h.id === id): its position, 0 when there is none
FindHymn(hs, id) ==
    IF \E i \in 1..Len(hs) : hs[i].id = id
    THEN CHOOSE i \in 1..Len(hs) :
            hs[i].id = id /\ \A j \in 1..(i - 1) : hs[j].id # id
    ELSE 0

\* The first of the four containers that displays the hymn gets that one
\* card replaced; the others are not looked at.
updateHymnCard(m, hymnId) ==
    LET shown == {c \in 1..Len(Containers) : HasCard(m.containers[Containers[c]], hymnId)}
        c == Containers[CHOOSE x \in shown : \A y \in shown : x <= y]
        h == FindHymn(m.hymns, hymnId)
    IN IF shown = {} \/ h = 0 THEN m
       ELSE [m EXCEPT !.containers[c][FirstCard(m.containers[c], hymnId)] =
                            createHymnCardDOM(m, m.hymns[h]),
                      !.log = Append(@, <<"card", c>>)]

\* ------------------------------------------------------------------------
\* Lenses
\* ------------------------------------------------------------------------
\* the favorites in the order they were added, not in catalog order
favHymnsAddOrder(hs, fav) ==
    IF fav.t # "arr" THEN <<>>
    ELSE LET found == SelectSeq(fav.v, LAMBDA n : n.t = "num" /\ FindHymn(hs, n.v) # 0)
         IN [i \in 1..Len(found) |-> hs[FindHymn(hs, found[i].v)]]

favHymns(hs, fav) == SelectSeq(hs, LAMBDA h : Includes(fav, h.id))

withNotes(hs, nts) == SelectSeq(hs, LAMBDA h : Truthy(GetProp(nts, ToKey(h.id))))

moodList(hs, mds, filter) ==
    IF Truthy(Str(filter)) /\ filter # All
    THEN SelectSeq(hs, LAMBDA h : StrictEquals(GetProp(mds, ToKey(h.id)), Str(filter)))
    ELSE hs

updateFavoritesDisplay(m) ==
    renderHymnsList(m, favHymns(m.hymns, m.favorites), "favorites")

updateNotesDisplay(m) ==
    renderHymnsList(m, withNotes(m.hymns, m.notes), "notes")

updateMoodDisplay(m) ==
    renderHymnsList(m, moodList(m.hymns, m.moods, m.currentMoodFilter), "mood")

\* ------------------------------------------------------------------------
\* Handlers
\* ------------------------------------------------------------------------
\* localStorage.setItem(key, JSON.stringify(<the collection of that name>))
persist(m, key) == setItem(m, key, JSONstringify(m[key]))

\* renderHymnsList(hymns, hymnsContainer)
renderAllHymns(m) == renderHymnsList(m, m.hymns, "hymns")

\* favorites.push(id) / favorites.splice(idx, 1), with its toast
pushOrSplice(m, id, idx) ==
    IF idx = -1
    THEN showToast([m EXCEPT !.favorites = Arr(Append(@.v, Num(id)))],
                   "Added to Favorites")
    ELSE showToast([m EXCEPT !.favorites = Arr(Splice1(@.v, idx))],
                   "Removed from Favorites")

\* the list is rendered before the slot is written
toggleFavoriteRenderFirst(m, id) ==
    IF ~IsArray(m.favorites) THEN Throw(m)
    ELSE updateHymnCard(
            persist(updateFavoritesDisplay(
                        pushOrSplice(m, id, IndexOf(m.favorites, id))),
                    "favorites"),
            id)

toggleFavorite(m, id) ==
    IF ~IsArray(m.favorites) THEN Throw(m)   \* a string has no push / splice
    ELSE updateHymnCard(
            updateFavoritesDisplay(
                persist(pushOrSplice(m, id, IndexOf(m.favorites, id)), "favorites")),
            id)

\* notes[currentHymn.id] = text, or delete notes[currentHymn.id]
noteWrite(m, text) ==
    IF text # <<>> THEN SetProp(m.notes, ToKey(m.currentHymn.id), Str(text), m.strict)
    ELSE DeleteProp(m.notes, ToKey(m.currentHymn.id), m.strict)

saveNoteText(m, text, r) ==
    IF r.threw THEN Throw(m)
    ELSE updateHymnCard(
            updateNotesDisplay(
                persist(showToast([m EXCEPT !.notes = r.val],
                                  IF text # <<>> THEN "Note saved" ELSE "Note cleared"),
                        "notes")),
            m.currentHymn.id)

saveNote(m, value) ==
    IF m.currentHymn = Null THEN m
    ELSE saveNoteText(m, Trim(value), noteWrite(m, Trim(value)))

setMoodResult(m, r) ==
    IF r.threw THEN Throw(m)
    ELSE updateHymnCard(showToast(persist([m EXCEPT !.moods = r.val], "moods"),
                                  "Mood set"),
                        m.currentHymn.id)

\* the mood given to the hymn becomes the mood filter too
setMoodAndFilter(m, mood) ==
    IF m.currentHymn = Null THEN m
    ELSE [setMoodResult(m, SetProp(m.moods, ToKey(m.currentHymn.id), Str(mood),
                                   m.strict))
            EXCEPT !.currentMoodFilter = mood]

setMood(m, mood) ==
    IF m.currentHymn = Null THEN m
    ELSE setMoodResult(m, SetProp(m.moods, ToKey(m.currentHymn.id), Str(mood), m.strict))

\* the click listener of every .mood-option
moodOptionClick(m, mood) ==
    IF m.detailActive /\ m.currentHymn # Null THEN setMood(m, mood)
    ELSE updateMoodDisplay([m EXCEPT !.currentMoodFilter = mood])

\* notes and moods exported under each other's name
exportDataSwapped(m) ==
    showToast([m EXCEPT !.download =
                   Str(JSONstringifyIndent(FieldsObj(m.favorites, m.moods, m.notes)))],
              "Data exported")

exportData(m) ==
    showToast([m EXCEPT !.download =
                   Str(JSONstringifyIndent(FieldsObj(m.favorites, m.notes, m.moods)))],
              "Data exported")

\* the three setItem calls, the three list updates and the full render that
\* end importData's try block and resetData
persistAndRender(m) ==
    renderAllHymns(
        updateMoodDisplay(updateNotesDisplay(updateFavoritesDisplay(
            persist(persist(persist(m, "favorites"), "notes"), "moods")))))

\* the three assignments from the parsed document
assignImported(m, fav, nts, mds) ==
    [m EXCEPT !.favorites = IF IsArray(fav) THEN fav ELSE @,
              !.notes = OrElse(nts, @),
              !.moods = OrElse(mds, @)]

importParsed(m, parsed) ==
    IF ~parsed.ok \/ parsed.val.t = "null"
    THEN showToast(m, "Import failed")      \* SyntaxError / TypeError, caught
    ELSE showToast(
            persistAndRender(
                assignImported(m, GetProp(parsed.val, "favorites"),
                               GetProp(parsed.val, "notes"),
                               GetProp(parsed.val, "moods"))),
            "Data imported")

\* reader.onload of importData, for a file with this text
importData(m, text) == importParsed(m, JSONparse(Str(text)))

\* the collections are cleared without asking
resetDataUnconfirmed(m, confirmed) ==
    showToast(
        persistAndRender([m EXCEPT !.favorites = Arr(<<>>), !.notes = EmptyObj,
                                   !.moods = EmptyObj]),
        "All data reset")

resetData(m, confirmed) ==
    IF ~confirmed THEN m
    ELSE showToast(
            persistAndRender([m EXCEPT !.favorites = Arr(<<>>), !.notes = EmptyObj,
                                       !.moods = EmptyObj]),
            "All data reset")

switchPage(m, pageId) ==
    IF pageId = "favorites-page" THEN updateFavoritesDisplay(m)
    ELSE IF pageId = "notes-page" THEN updateNotesDisplay(m)
    ELSE IF pageId = "mood-page" THEN updateMoodDisplay(m)
    ELSE m

\* 'Loading lyrics…'
Loading == <<"L", "o">>

\* lyricsCache.set(id, text)
cacheSet(m, id, text) ==
    [m EXCEPT !.lyricsCache = [k \in DOMAIN @ \cup {id} |-> IF k = id THEN text ELSE @[k]]]

\* if (audio.src !== hymn.audio) { audio.pause(); audio.src = hymn.audio || ''; }
bindAudio(m, hymn) ==
    IF m.audioSrc # hymn.audio
    THEN [m EXCEPT !.audioPaused = TRUE, !.audioSrc = Resolve(hymn.audio)]
    ELSE m

\* openHymnDetail after its await, with the .then(() => setTimeout(...)) of
\* the play button where the call came from there
openHymnDetailResume(m, hymn, lyrics, thenToggle) ==
    [bindAudio([m EXCEPT !.lyricsShown = lyrics], hymn) EXCEPT
        !.detailActive = TRUE,
        !.timers = IF thenToggle THEN @ + 1 ELSE @]

\* fetchLyricsIfNeeded answers without a fetch
lyricsAtHand(m, hymn) ==
    hymn.lyrics # <<>> \/ hymn.id \in DOMAIN m.lyricsCache \/ ~hymn.lyricsFile

\* what it answers then (and caches)
lyricsNow(m, hymn) ==
    IF hymn.lyrics # <<>> THEN hymn.lyrics
    ELSE IF hymn.id \in DOMAIN m.lyricsCache THEN m.lyricsCache[hymn.id]
    ELSE NotAvailable

openHymn(m, hymn, thenToggle) ==
    IF lyricsAtHand(m, hymn)
    THEN openHymnDetailResume(
            cacheSet([m EXCEPT !.currentHymn = hymn, !.lyricsShown = Loading],
                     hymn.id, lyricsNow(m, hymn)),
            hymn, lyricsNow(m, hymn), thenToggle)
    ELSE [m EXCEPT !.currentHymn = hymn,
                   !.lyricsShown = Loading,
                   !.fetches[hymn.id] = @ + 1,
                   !.opening = @ (+) SetToBag({[id |-> hymn.id,
                                                thenToggle |-> thenToggle]})]

\* openHymnDetail up to its await; where fetchLyricsIfNeeded does not fetch,
\* the rest follows before any other event.
openHymnDetail(m, id, thenToggle) ==
    IF FindHymn(m.hymns, id) = 0
    THEN [m EXCEPT !.timers = IF thenToggle THEN @ + 1 ELSE @]
    ELSE openHymn(m, m.hymns[FindHymn(m.hymns, id)], thenToggle)

\* fetchLyricsIfNeeded from its await on, then the rest of openHymnDetail
lyricsFetched(m, req, text) ==
    openHymnDetailResume(
        cacheSet([m EXCEPT !.opening = @ (-) SetToBag({req})], req.id, text),
        m.hymns[FindHymn(m.hymns, req.id)], text, req.thenToggle)

pauseAudio(m) ==
    showToast([m EXCEPT !.audioPaused = TRUE, !.isPlaying = FALSE], "Audio paused")

closeHymnDetail(m) ==
    [pauseAudio([m EXCEPT !.detailActive = FALSE]) EXCEPT !.currentHymn = Null]

\* up to audio.play(): its promise is settled later
playAudio(m) ==
    IF m.currentHymn = Null THEN m
    ELSE [m EXCEPT !.audioPaused = FALSE, !.plays = @ + 1]

togglePlayback(m) ==
    IF m.currentHymn = Null THEN m
    ELSE IF m.isPlaying THEN pauseAudio(m)
    ELSE playAudio(m)

\* the .then callback: currentHymn.title throws when no hymn is current
playStarted(m) ==
    IF m.currentHymn = Null THEN Throw([m EXCEPT !.isPlaying = TRUE])
    ELSE showToast([m EXCEPT !.isPlaying = TRUE], "Audio started playing")

\* the .catch callback
playFailed(m) ==
    showToast([m EXCEPT !.threw = FALSE], "Cannot play audio (user gesture required?)")

catchPlay(r) == IF r.threw THEN playFailed(r) ELSE r

\* the promises of audio.play() settle
playSettled(m, fulfilled) ==
    IF fulfilled THEN catchPlay(playStarted([m EXCEPT !.plays = 0]))
    ELSE playFailed([m EXCEPT !.plays = 0, !.audioPaused = TRUE])

\* miniPlayerClose click listener
miniPlayerClose(m) == pauseAudio(m)

\* audio 'ended' listener
audioEnded(m) == [m EXCEPT !.isPlaying = FALSE, !.audioPaused = TRUE]

\* setTimeout(() => togglePlayback(), 120) comes due
timerFired(m) == togglePlayback([m EXCEPT !.timers = @ - 1])

\* ------------------------------------------------------------------------
\* Search
\* ------------------------------------------------------------------------
UpperCase == <<"A", "B", "G", "H", "I", "L", "O", "R", "W", "M">>

LowerCase == <<"a", "b", "g", "h", "i", "l", "o", "r", "w", "m">>

\* String.prototype.toLowerCase
ToLowerCase(s) ==
    [i \in 1..Len(s) |->
        IF \E u \in 1..Len(UpperCase) : UpperCase[u] = s[i]
        THEN LowerCase[CHOOSE u \in 1..Len(UpperCase) : UpperCase[u] = s[i]]
        ELSE s[i]]

\* String.prototype.padStart(n, c)
RECURSIVE padStart(_, _, _)
padStart(s, n, c) == IF Len(s) >= n THEN s ELSE padStart(<<c>> \o s, n, c)

\* String.prototype.includes(q)
IncludesText(s, q) ==
    \E i \in 0..(Len(s) - Len(q)) : SubSeq(s, i + 1, i + Len(q)) = q

\* String(hymn.id)
IdStr(hymn) == <<ToKey(hymn.id)>>

\* hymn.lyrics || lyricsCache.get(hymn.id) || ''
lyricsText(m, hymn) ==
    IF hymn.lyrics # <<>> THEN hymn.lyrics
    ELSE IF hymn.id \in DOMAIN m.lyricsCache THEN m.lyricsCache[hymn.id]
    ELSE <<>>

\* the filter callback
matchesQuery(m, hymn, q) ==
    \/ IdStr(hymn) = q
    \/ padStart(IdStr(hymn), 3, "0") = q
    \/ hymn.title # <<>> /\ IncludesText(ToLowerCase(hymn.title), q)
    \/ lyricsText(m, hymn) # <<>> /\ IncludesText(ToLowerCase(lyricsText(m, hymn)), q)

\* the query is matched as typed, neither lower-cased nor trimmed
filterHymnsAsTyped(m, query) ==
    IF query = <<>> THEN renderAllHymns(m)
    ELSE renderHymnsList(m, SelectSeq(m.hymns, LAMBDA h : matchesQuery(m, h, query)),
                         "hymns")

filterHymnsImmediate(m, query) ==
    IF Trim(ToLowerCase(query)) = <<>> THEN renderAllHymns(m)
    ELSE renderHymnsList(
            m, SelectSeq(m.hymns,
                         LAMBDA h : matchesQuery(m, h, Trim(ToLowerCase(query)))),
            "hymns")

\* ------------------------------------------------------------------------
\* Start-up
\* ------------------------------------------------------------------------
NoLast == [op |-> "none", id |-> 0, threw |-> FALSE, log |-> <<>>]

Slot(fav, nts, mds) ==
    [k \in Slots |-> IF k = "favorites" THEN fav ELSE IF k = "notes" THEN nts ELSE mds]

\* what localStorage may hold when the script starts
InitStorages ==
    { Slot(Null, Null, Null),
      Slot(StoredArr, StoredObj(3, <<"x">>), StoredObj(1, Calm)),
      Slot(StoredArr, Str(Unparsable), Null),
      Slot(Str(Unparsable), StoredObj(3, <<"x">>), StoredObj(1, Calm)),
      Slot(StoredArr, StoredObj(3, <<"x">>), Str(Unparsable)),
      Slot(Str(JSONstringify(Str(<<"x">>))), Null, Null) }

Init ==
    /\ pc = "load"
    /\ strict \in BOOLEAN
    /\ storage \in InitStorages
    /\ hymns = <<>>
    /\ fetching = FALSE
    /\ favorites = Undefined
    /\ notes = Undefined
    /\ moods = Undefined
    /\ currentMoodFilter = All
    /\ currentHymn = Null
    /\ detailActive = FALSE
    /\ opening = EmptyBag
    /\ lyricsCache = << >>
    /\ lyricsShown = <<>>
    /\ fetches = [id \in HymnIds |-> 0]
    /\ audioSrc = RelativeUrl("")
    /\ audioPaused = TRUE
    /\ plays = 0
    /\ timers = 0
    /\ isPlaying = FALSE
    /\ containers = [c \in {"hymns", "favorites", "notes", "mood"} |-> <<>>]
    /\ toast = ""
    /\ last = NoLast
    /\ steps = 0

\* JSON.parse(localStorage.getItem(key)) || empty
loadSlot(sto, key, empty) ==
    LET r == JSONparse(sto[key])
    IN [threw |-> ~r.ok, val |-> IF r.ok THEN OrElse(r.val, empty) ELSE Undefined]

\* The script's top level: the three `let` initialisers run in order; a
\* SyntaxError in one ends the script, the later bindings stay uninitialised.
LoadPersisted ==
    /\ pc = "load"
    /\ LET f == loadSlot(storage, "favorites", Arr(<<>>))
           n == loadSlot(storage, "notes", EmptyObj)
           d == loadSlot(storage, "moods", EmptyObj)
       IN /\ favorites' = f.val
          /\ notes' = IF f.threw THEN Undefined ELSE n.val
          /\ moods' = IF f.threw \/ n.threw THEN Undefined ELSE d.val
          /\ pc' = IF f.threw \/ n.threw \/ d.threw THEN "crashed" ELSE "loaded"
    /\ UNCHANGED << strict, storage, hymns, fetching, currentMoodFilter, currentHymn,
                    detailActive, opening, lyricsCache, containers, toast, last,
                    steps, player >>

\* DOMContentLoaded: the listeners are wired, loadHymns starts its fetch and
\* the three lists are rendered from the still empty catalog.
InitApp ==
    /\ pc = "loaded"
    /\ pc' = "running"
    /\ fetching' = TRUE
    /\ LET m == updateMoodDisplay(updateNotesDisplay(updateFavoritesDisplay(Cur)))
       IN /\ containers' = m.containers
          /\ last' = [NoLast EXCEPT !.op = "initApp", !.log = m.log]
    /\ UNCHANGED << strict, storage, hymns, favorites, notes, moods,
                    currentMoodFilter, currentHymn, detailActive, opening,
                    lyricsCache, toast, steps, player >>

\* loadHymns from its await on: try / catch / finally
\* how the fetch of data/hymns.json may end: with a list, with JSON that is
\* not a list, or with one of the failures the try block throws on
LoadOutcomes == {"list", "notList", "networkError", "notOk", "unparsable"}

fetchedOrFallback(m, outcome) ==
    IF outcome = "list" THEN [m EXCEPT !.hymns = FetchedHymns]
    ELSE IF outcome = "notList" THEN [m EXCEPT !.hymns = <<>>]
    ELSE showToast([m EXCEPT !.hymns = sampleHymns], "Using sample hymns (offline)")

loadHymns(m, outcome) ==
    updateMoodDisplay(updateNotesDisplay(updateFavoritesDisplay(
        renderAllHymns(fetchedOrFallback(m, outcome)))))

\* ------------------------------------------------------------------------
\* Events
\* ------------------------------------------------------------------------
MaxSteps == 4

Running == pc = "running" /\ steps < MaxSteps

\* the cards the user goes for
ClickIds == {1, 3}

\* ids of the cards on display, in any container
Displayed ==
    UNION {{containers[c][i].id : i \in 1..Len(containers[c])} : c \in DOMAIN containers}

CardIds == ClickIds \cap Displayed

LoadHymnsDone ==
    /\ Running /\ fetching
    /\ fetching' = FALSE
    /\ \E outcome \in LoadOutcomes :
          Commit(loadHymns(Cur, outcome), "loadHymns", 0)

\* a card's favorite button
CardFavorite ==
    /\ Running
    /\ \E id \in CardIds : Commit(toggleFavorite(Cur, id), "toggleFavorite", id)
    /\ UNCHANGED fetching

\* the detail view's favorite button
DetailFavorite ==
    /\ Running /\ currentHymn # Null
    /\ Commit(toggleFavorite(Cur, currentHymn.id), "toggleFavorite", currentHymn.id)
    /\ UNCHANGED fetching

\* a card, or its play button
CardOpen ==
    /\ Running
    /\ \E id \in CardIds :
          Commit(openHymnDetail(Cur, id, FALSE), "openHymnDetail", id)
    /\ UNCHANGED fetching

\* the lyrics fetch of a pending openHymnDetail ends, well or not
LyricsFetched ==
    /\ Running
    /\ \E req \in BagToSet(opening) :
       \E text \in {LyricsFileText(req.id), NotAvailable} :
          Commit(lyricsFetched(Cur, req, text), "openHymnDetailResume", req.id)
    /\ UNCHANGED fetching

CloseDetail ==
    /\ Running
    /\ Commit(closeHymnDetail(Cur), "closeHymnDetail", 0)
    /\ UNCHANGED fetching

SaveNote ==
    /\ Running
    /\ \E value \in NoteInputs : Commit(saveNote(Cur, value), "saveNote", 0)
    /\ UNCHANGED fetching

MoodOption ==
    /\ Running
    /\ \E mood \in MoodOptions :
          Commit(moodOptionClick(Cur, mood),
                 IF detailActive /\ currentHymn # Null THEN "setMood" ELSE "moodFilter",
                 0)
    /\ UNCHANGED fetching

ExportData ==
    /\ Running
    /\ Commit(exportData(Cur), "exportData", 0)
    /\ UNCHANGED fetching

\* a file chosen by the user has been read: one of ImportFiles, or the
\* file exportData has just produced
ImportData ==
    /\ Running
    /\ LET exported == exportData(Cur).download.v
       IN \E text \in ImportFiles \cup {exported} :
             Commit(importData(Cur, text),
                    IF text = exported THEN "importExported" ELSE "importData", 0)
    /\ UNCHANGED fetching

ResetData ==
    /\ Running
    /\ \E confirmed \in BOOLEAN :
          Commit(resetData(Cur, confirmed), "resetData", IF confirmed THEN 1 ELSE 0)
    /\ UNCHANGED fetching

SwitchPage ==
    /\ Running
    /\ \E pageId \in {"favorites-page", "notes-page", "mood-page"} :
          Commit(switchPage(Cur, pageId), "switchPage", 0)
    /\ UNCHANGED fetching

Next ==
    \/ LoadPersisted
    \/ InitApp
    \/ LoadHymnsDone
    \/ CardFavorite
    \/ DetailFavorite
    \/ CardOpen
    \/ LyricsFetched
    \/ CloseDetail
    \/ SaveNote
    \/ MoodOption
    \/ ExportData
    \/ ImportData
    \/ ResetData
    \/ SwitchPage

Spec == Init /\ [][Next]_vars

\* ------------------------------------------------------------------------
\* The detail view, the player and the search box, on a fresh profile
\* ------------------------------------------------------------------------
MaxDetailSteps == 5

DetailRunning == pc = "running" /\ steps < MaxDetailSteps

DetailClickIds == {1, 3, 7}

\* what the user may have typed in the search box
Queries ==
    { <<>>, <<" ">>, <<"7">>, <<"0", "0", "7">>, <<"9">>, <<" ", "G", "R">>,
      <<"b", "l">>, <<"l", "y">> }

InitDetail == Init /\ storage = Slot(Null, Null, Null) /\ ~strict

CatalogLoaded ==
    /\ DetailRunning /\ fetching
    /\ fetching' = FALSE
    /\ \E outcome \in LoadOutcomes :
          Commit(loadHymns(Cur, outcome), "loadHymns", 0)

\* a card
OpenCard ==
    /\ DetailRunning
    /\ \E id \in DetailClickIds \cap Displayed :
          Commit(openHymnDetail(Cur, id, FALSE), "openHymnDetail", id)
    /\ UNCHANGED fetching

\* a card's play button
PlayCard ==
    /\ DetailRunning
    /\ \E id \in DetailClickIds \cap Displayed :
          Commit(openHymnDetail(Cur, id, TRUE), "openAndPlay", id)
    /\ UNCHANGED fetching

\* a lyrics fetch ends, well or not
LyricsSettled ==
    /\ DetailRunning
    /\ \E req \in BagToSet(opening) :
       \E text \in {LyricsFileText(req.id), NotAvailable} :
          Commit(lyricsFetched(Cur, req, text), "openHymnDetailResume", req.id)
    /\ UNCHANGED fetching

DetailClose ==
    /\ DetailRunning
    /\ Commit(closeHymnDetail(Cur), "closeHymnDetail", 0)
    /\ UNCHANGED fetching

\* playBtn / miniPlayBtn
PlayButton ==
    /\ DetailRunning
    /\ Commit(togglePlayback(Cur), "togglePlayback", 0)
    /\ UNCHANGED fetching

TimerFired ==
    /\ DetailRunning /\ timers > 0
    /\ Commit(timerFired(Cur), "togglePlayback", 1)
    /\ UNCHANGED fetching

PlaySettled ==
    /\ DetailRunning /\ plays > 0
    /\ \E fulfilled \in BOOLEAN :
          Commit(playSettled(Cur, fulfilled),
                 IF fulfilled THEN "playFulfilled" ELSE "playRejected", 0)
    /\ UNCHANGED fetching

MiniPlayerClose ==
    /\ DetailRunning
    /\ Commit(miniPlayerClose(Cur), "miniPlayerClose", 0)
    /\ UNCHANGED fetching

\* the audio plays to its end
AudioEnded ==
    /\ DetailRunning /\ ~audioPaused /\ plays = 0
    /\ Commit(audioEnded(Cur), "ended", 0)
    /\ UNCHANGED fetching

Search ==
    /\ DetailRunning
    /\ \E query \in Queries :
          Commit(filterHymnsImmediate(Cur, query), "search", Len(query))
    /\ UNCHANGED fetching

NextDetail ==
    \/ LoadPersisted
    \/ InitApp
    \/ CatalogLoaded
    \/ OpenCard
    \/ PlayCard
    \/ LyricsSettled
    \/ DetailClose
    \/ PlayButton
    \/ TimerFired
    \/ PlaySettled
    \/ MiniPlayerClose
    \/ AudioEnded
    \/ Search

SpecDetail == InitDetail /\ [][NextDetail]_vars

\* ------------------------------------------------------------------------
\* The annotation store together with the search box
\* ------------------------------------------------------------------------
MaxFrameSteps == 3

FrameRunning == steps < MaxFrameSteps

NextFrame ==
    \/ LoadPersisted
    \/ InitApp
    \/ FrameRunning /\ LoadHymnsDone
    \/ FrameRunning /\ CardFavorite
    \/ FrameRunning /\ DetailFavorite
    \/ FrameRunning /\ CardOpen
    \/ FrameRunning /\ LyricsFetched
    \/ FrameRunning /\ CloseDetail
    \/ FrameRunning /\ SaveNote
    \/ FrameRunning /\ MoodOption
    \/ FrameRunning /\ ExportData
    \/ FrameRunning /\ ImportData
    \/ FrameRunning /\ ResetData
    \/ FrameRunning /\ SwitchPage
    \/ FrameRunning /\ Search

SpecFrame == Init /\ [][NextFrame]_vars

\* ------------------------------------------------------------------------
\* Properties
\* ------------------------------------------------------------------------
\* equality of two JavaScript values
Same(a, b) == a.t = b.t /\ a = b

Started == pc = "running"

\* the ids toggleFavorite can be called with in this state
Togglable == CardIds \cup (IF currentHymn = Null THEN {} ELSE {currentHymn.id})

Collection(k) == IF k = "favorites" THEN favorites ELSE IF k = "notes" THEN notes ELSE moods

Ids(cards) == [i \in 1..Len(cards) |-> cards[i].id]

\* the handlers that change an annotation collection
MutatingOps == {"toggleFavorite", "saveNote", "setMood", "importData", "importExported",
                "resetData"}

\* the list a 'favorites' slot persists (a slot never written persists none)
PersistedList(slot) == OrElse(JSONparse(slot).val, Arr(<<>>))

\* C1: for every id, toggleFavorite(id) twice in succession gives back the
\* membership of id and the persisted content of the 'favorites' slot.
C1_ToggleTwiceRestores ==
    Started =>
        \A id \in Togglable :
            LET twice == toggleFavorite(toggleFavorite(Cur, id), id)
            IN /\ Includes(twice.favorites, id) = Includes(favorites, id)
               /\ Same(PersistedList(twice.storage["favorites"]),
                       PersistedList(storage["favorites"]))

\* what a slot should load as: its value when it parses to the right shape,
\* the empty form otherwise
ExpectedLoad(key, shape, empty) ==
    IF JSONparse(storage[key]).ok /\ JSONparse(storage[key]).val.t = shape
    THEN JSONparse(storage[key]).val ELSE empty

\* C2: start-up loads the three slots independently (a missing or malformed
\* slot gives the empty form of that one collection) and the application starts.
C2_LoadIndependent ==
    /\ pc # "crashed"
    /\ pc = "loaded" =>
          /\ Same(favorites, ExpectedLoad("favorites", "arr", Arr(<<>>)))
          /\ Same(notes, ExpectedLoad("notes", "obj", EmptyObj))
          /\ Same(moods, ExpectedLoad("moods", "obj", EmptyObj))

IsDocument(text) == JSONparse(Str(text)).ok /\ JSONparse(Str(text)).val.t = "obj"

Field(text, k) == GetProp(JSONparse(Str(text)).val, k)

\* C3: import replaces a collection only when its field is present and of
\* the expected shape (a list for favorites, a mapping for notes and moods);
\* otherwise the collection keeps its prior value.
C3_ImportShapeChecked ==
    Started =>
        \A text \in ImportFiles :
            LET after == importData(Cur, text)
            IN IsDocument(text) =>
                /\ Same(after.favorites,
                        IF Field(text, "favorites").t = "arr"
                        THEN Field(text, "favorites") ELSE favorites)
                /\ Same(after.notes,
                        IF Field(text, "notes").t = "obj"
                        THEN Field(text, "notes") ELSE notes)
                /\ Same(after.moods,
                        IF Field(text, "moods").t = "obj"
                        THEN Field(text, "moods") ELSE moods)

\* C4: a document that is unparsable or not an object at top level is
\* reported as 'Import failed' and leaves the collections and the slots as
\* they were.
C4_MalformedImportRejected ==
    Started =>
        \A text \in ImportFiles :
            LET after == importData(Cur, text)
            IN ~IsDocument(text) =>
                /\ after.toast = "Import failed"
                /\ Same(after.favorites, favorites)
                /\ Same(after.notes, notes)
                /\ Same(after.moods, moods)
                /\ \A k \in Slots : Same(after.storage[k], storage[k])

\* C5: the favorites list never holds an id twice.
C5_NoDuplicateFavorites ==
    (Started /\ favorites.t = "arr") =>
        \A i, j \in 1..Len(favorites.v) :
            i # j => favorites.v[i] # favorites.v[j]

\* C6: every key of the note map holds a text that is non-empty after
\* trimming.
C6_NotesNonEmpty ==
    (Started /\ notes.t = "obj") =>
        \A k \in DOMAIN notes.v :
            notes.v[k].t = "str" /\ Trim(notes.v[k].v) # <<>>

\* the slots the last handler had to write
Touched ==
    IF last.threw THEN {}
    ELSE IF last.op = "toggleFavorite" THEN {"favorites"}
    ELSE IF last.op = "saveNote" /\ currentHymn # Null THEN {"notes"}
    ELSE IF last.op = "setMood" THEN {"moods"}
    ELSE IF last.op \in {"importData", "importExported"} /\ toast = "Data imported"
         THEN Slots
    ELSE IF last.op = "resetData" /\ last.id = 1 THEN Slots
    ELSE {}

\* position of the first effect of this kind in the log, past its end if none
FirstEffect(log, what) ==
    IF \E i \in 1..Len(log) : log[i] = what
    THEN CHOOSE i \in 1..Len(log) : log[i] = what /\ \A j \in 1..(i - 1) : log[j] # what
    ELSE Len(log) + 1

\* C7: after a completed mutating handler each slot it touched holds the
\* JSON serialization of the collection in memory, and the write came before
\* any list or card was rendered.
C7_PersistedBeforeRender ==
    \A k \in Touched :
        /\ Same(storage[k], Str(JSONstringify(Collection(k))))
        /\ FirstEffect(last.log, <<"setItem", k>>) <= Len(last.log)
        /\ \A i \in 1..Len(last.log) :
              last.log[i][1] # "setItem" => FirstEffect(last.log, <<"setItem", k>>) < i

C7_Witness ==
    /\ last.op = "saveNote" /\ ~last.threw
    /\ currentHymn # Null /\ notes.t = "obj"
    /\ ToKey(currentHymn.id) \in DOMAIN notes.v
    /\ last.log = << <<"setItem", "notes">>, <<"render", "notes">>, <<"card", "hymns">> >>

\* C8 as stated: importing the document export produces leaves the three
\* collections and the three slots identical.
C8_RoundTripIdentity ==
    Started =>
        LET after == importData(Cur, exportData(Cur).download.v)
        IN /\ Same(after.favorites, favorites)
           /\ Same(after.notes, notes)
           /\ Same(after.moods, moods)
           /\ \A k \in Slots : Same(after.storage[k], storage[k])

\* C8 amended: importing the document export produces leaves the three
\* collections identical and is reported as done; every slot then holds the
\* serialization of its collection, so a slot changes only if it did not
\* hold that text before (a slot that was never written is created).
C8_RoundTripCollections ==
    Started =>
        LET after == importData(Cur, exportData(Cur).download.v)
        IN /\ Same(after.favorites, favorites)
           /\ Same(after.notes, notes)
           /\ Same(after.moods, moods)
           /\ after.toast = "Data imported"
           /\ \A k \in Slots :
                 Same(after.storage[k], Str(JSONstringify(Collection(k))))

C8_Witness ==
    /\ last.op = "importExported" /\ toast = "Data imported"
    /\ favorites.t = "arr" /\ favorites.v # <<>>
    /\ notes.t = "obj" /\ DOMAIN notes.v # {}
    /\ moods.t = "obj" /\ DOMAIN moods.v # {}
    /\ ~Same(notes, moods)

\* C9: after a completed annotation mutation the favorites, notes and mood
\* containers show what their lenses give for the current collections.
C9_LensesRecomputed ==
    (last.op \in MutatingOps /\ ~last.threw) =>
        /\ Ids(containers["favorites"]) = Ids(favHymns(hymns, favorites))
        /\ Ids(containers["notes"]) = Ids(withNotes(hymns, notes))
        /\ Ids(containers["mood"]) = Ids(moodList(hymns, moods, currentMoodFilter))

\* the lens predicates, read off the collections as the data model has them
InFavorites(h) == \E i \in 1..Len(favorites.v) : Same(favorites.v[i], Num(h.id))

HasNote(h) ==
    /\ ToKey(h.id) \in DOMAIN notes.v
    /\ notes.v[ToKey(h.id)].t = "str"
    /\ notes.v[ToKey(h.id)].v # <<>>

HasMood(h, label) ==
    \/ label = All
    \/ /\ ToKey(h.id) \in DOMAIN moods.v
       /\ Same(moods.v[ToKey(h.id)], Str(label))

\* result is exactly the catalog items satisfying P, in catalog order
Projects(result, P(_)) ==
    /\ \A i \in 1..Len(result) :
          P(result[i]) /\ \E j \in 1..Len(hymns) : hymns[j] = result[i]
    /\ \A j \in 1..Len(hymns) :
          P(hymns[j]) => \E i \in 1..Len(result) : result[i] = hymns[j]
    /\ \A a, b \in 1..Len(result) :
          a < b => FindHymn(hymns, result[a].id) < FindHymn(hymns, result[b].id)

WellShaped == favorites.t = "arr" /\ notes.t = "obj" /\ moods.t = "obj"

\* C10: for a favorites list, a note map and a mood map, each lens returns
\* exactly the catalog items satisfying its predicate, in catalog order
\* whatever the order of the annotations and of the catalog ids; ids that
\* match no catalog item are left out.
C10_ProjectionsExact ==
    (Started /\ WellShaped) =>
        /\ Projects(favHymns(hymns, favorites), InFavorites)
        /\ Projects(withNotes(hymns, notes), HasNote)
        /\ \A label \in MoodOptions :
              Projects(moodList(hymns, moods, label), LAMBDA h : HasMood(h, label))

C10_Witness ==
    /\ hymns = FetchedHymns /\ WellShaped
    /\ Same(favorites, Arr(<<Num(1), Num(2), Num(3)>>))
    /\ DOMAIN notes.v # {} /\ DOMAIN moods.v # {}
    /\ Ids(containers["favorites"]) = <<3, 1>>
    /\ last.op = "toggleFavorite"

\* the cards for id in a container
CardsOf(cards, id) == {i \in 1..Len(cards) : cards[i].id = id}

\* C11: after toggleFavorite(id) every card for id on display, in any of the
\* four containers, shows the membership of id in favorites; a container that
\* displays no card for id, before or after, is left as it was.
C11_CardsShowMembership ==
    Started =>
        \A id \in Togglable :
            LET after == toggleFavorite(Cur, id)
            IN ~after.threw =>
                \A c \in DOMAIN containers :
                    /\ \A i \in CardsOf(after.containers[c], id) :
                          after.containers[c][i].fav = Includes(after.favorites, id)
                    /\ (CardsOf(containers[c], id) = {}
                            /\ CardsOf(after.containers[c], id) = {})
                          => after.containers[c] = containers[c]

\* the ways the catalog source can fail or be wrongly shaped
FailedLoads == LoadOutcomes \ {"list"}

\* C12: on every kind of failure of the catalog load (network error, non-OK
\* response, unparsable payload, payload that is not a list) the catalog is
\* the built-in sample catalog and a notification is shown.
C12_LoadFallsBack ==
    (Started /\ fetching) =>
        \A outcome \in FailedLoads :
            LET after == loadHymns(Cur, outcome)
            IN /\ after.hymns = sampleHymns
               /\ after.toast = "Using sample hymns (offline)"

\* C13: for every hymn id at most one lyrics fetch is ever issued, whatever
\* the sequence and interleaving of the requests.
C13_OneFetchPerId == \A id \in HymnIds : fetches[id] <= 1

\* C14: whenever a hymn is open and no openHymnDetail is pending, the audio
\* element is bound to the audio reference of the hymn that is open.
C14_AudioBoundToOpenHymn ==
    (detailActive /\ currentHymn # Null /\ opening = EmptyBag) =>
        audioSrc = Resolve(currentHymn.audio)

PlayFailureToast == "Cannot play audio (user gesture required?)"

\* C15: after every failed play attempt (the user has been told that the
\* audio cannot be played) isPlaying is false.
C15_FailedPlayNotPlaying ==
    (last.op \in {"playFulfilled", "playRejected"} /\ toast = PlayFailureToast) =>
        ~isPlaying

\* the mood labels a hymn can be given
MoodLabels == MoodOptions \ {All}

\* C16: every value in the mood map is one of the enumerated mood labels
\* (each id has one entry at most, the map being a map), and setting a mood
\* for the open hymn overwrites the mood it had.
C16_MoodsEnumerated ==
    (Started /\ moods.t = "obj") =>
        /\ \A k \in DOMAIN moods.v : \E label \in MoodLabels : moods.v[k] = Str(label)
        /\ (detailActive /\ currentHymn # Null) =>
              \A label \in MoodLabels :
                  Same(GetProp(setMood(Cur, label).moods, ToKey(currentHymn.id)),
                       Str(label))

EmptySlot(k) == Str(JSONstringify(IF k = "favorites" THEN Arr(<<>>) ELSE EmptyObj))

\* C17: reset, once confirmed, clears the three collections and writes the
\* empty value to the three slots; declined, it leaves the collections, the
\* slots and the displayed lists as they were.
C17_ResetOnlyOnConfirm ==
    Started =>
        LET done == resetData(Cur, TRUE)
            declined == resetData(Cur, FALSE)
        IN /\ Same(done.favorites, Arr(<<>>))
           /\ Same(done.notes, EmptyObj)
           /\ Same(done.moods, EmptyObj)
           /\ \A k \in Slots : Same(done.storage[k], EmptySlot(k))
           /\ Same(declined.favorites, favorites)
           /\ Same(declined.notes, notes)
           /\ Same(declined.moods, moods)
           /\ declined.storage = storage
           /\ declined.containers = containers

C17_Witness ==
    /\ last.op = "resetData" /\ last.id = 1 /\ toast = "All data reset"
    /\ hymns # <<>> /\ containers["favorites"] = <<>> /\ containers["notes"] = <<>>
    /\ \A k \in Slots : Same(storage[k], EmptySlot(k))

\* C18: saving a note for the open hymn trims the text; an empty result
\* removes the entry from the note map and from the persisted notes and
\* reports 'Note cleared', any other sets the entry to the trimmed text and
\* reports 'Note saved'.
C18_SaveNoteTrims ==
    (Started /\ currentHymn # Null) =>
        \A value \in NoteInputs :
            LET after == saveNote(Cur, value)
                key == ToKey(currentHymn.id)
            IN IF Trim(value) = <<>>
               THEN /\ Same(GetProp(after.notes, key), Undefined)
                    /\ Same(GetProp(JSONparse(after.storage["notes"]).val, key), Undefined)
                    /\ after.toast = "Note cleared"
               ELSE /\ Same(GetProp(after.notes, key), Str(Trim(value)))
                    /\ Same(GetProp(JSONparse(after.storage["notes"]).val, key),
                            Str(Trim(value)))
                    /\ after.toast = "Note saved"

\* s contains q, letters compared without regard to case
Contains(s, q) ==
    \E a \in 0..Len(s) :
        /\ a + Len(q) <= Len(s)
        /\ \A i \in 1..Len(q) : ToLowerCase(<<s[a + i]>>) = ToLowerCase(<<q[i]>>)

\* the body of a hymn: inline, else as cached, else none
Body(h) ==
    IF h.lyrics # <<>> THEN h.lyrics
    ELSE IF h.id \in DOMAIN lyricsCache THEN lyricsCache[h.id]
    ELSE <<>>

\* a hymn matches a query that is already trimmed and lower-cased
Matches(h, q) ==
    \/ q = <<ToKey(h.id)>>
    \/ q = <<"0", "0", ToKey(h.id)>>
    \/ Contains(h.title, q)
    \/ Contains(Body(h), q)

\* C19: the search shows the whole catalog for a query that is empty once
\* trimmed, and otherwise exactly the hymns whose id (plain or zero-padded to
\* 3 digits) equals the trimmed, lower-cased query or whose title or body
\* (inline or cached) contains it, case ignored, in catalog order.
C19_SearchMatches ==
    Started =>
        \A query \in Queries :
            LET q == Trim(ToLowerCase(query))
                shown == Ids(filterHymnsImmediate(Cur, query).containers["hymns"])
            IN IF q = <<>> THEN shown = Ids(hymns)
               ELSE shown = Ids(SelectSeq(hymns, LAMBDA h : Matches(h, q)))

C19_Witness ==
    /\ last.op = "search" /\ last.id = 2
    /\ hymns = FetchedHymns
    /\ 3 \in DOMAIN lyricsCache /\ lyricsCache[3] = LyricsFileText(3)
    /\ Ids(containers["hymns"]) = <<3>>

\* C20: the detail view being shown implies that a hymn is current.
C20_DetailHasHymn == detailActive => currentHymn # Null

\* C21: once no openHymnDetail is pending, the text shown in the detail view
\* is the body of the current hymn, in whatever order the fetches answered.
C21_ShownLyricsOfCurrent ==
    (detailActive /\ currentHymn # Null /\ opening = EmptyBag) =>
        lyricsShown = Body(currentHymn)

\* C22: isPlaying being true implies that a hymn is current.
C22_PlayingHasHymn == isPlaying => currentHymn # Null

\* C23: whenever the program pauses the audio element (the pause done on
\* opening a hymn with another audio reference included), isPlaying is false
\* afterwards.
C23_PausedMeansNotPlaying ==
    [][(~audioPaused /\ audioPaused') => ~isPlaying']_vars

\* the step has left these collections and their slots as they are
KeptStep(ks) ==
    \A k \in ks : Same(Collection(k)', Collection(k)) /\ Same(storage'[k], storage[k])

\* the handlers that are no annotation mutators
Bystanders ==
    {"moodFilter", "search", "switchPage", "openHymnDetail", "openHymnDetailResume",
     "closeHymnDetail", "exportData"}

FrameStep ==
    /\ last'.op = "toggleFavorite" => KeptStep({"notes", "moods"})
    /\ last'.op = "saveNote" => KeptStep({"favorites", "moods"})
    /\ last'.op = "setMood" =>
          KeptStep({"favorites", "notes"}) /\ currentMoodFilter' = currentMoodFilter
    /\ last'.op \in Bystanders => KeptStep(Slots)

\* C24: each annotation mutator changes only its own collection and storage
\* slot: a step of toggleFavorite leaves notes, moods and their slots as they
\* were, a step of saveNote favorites and moods, a step of setMood favorites,
\* notes and the current mood filter; choosing a mood filter, searching,
\* switching pages, opening or closing a hymn and exporting leave all three
\* collections and all three slots as they were.
C24_FrameEffects == [][FrameStep]_vars

C24_Witness ==
    /\ last.op = "saveNote" /\ ~last.threw /\ toast = "Note saved"
    /\ currentHymn # Null /\ WellShaped
    /\ ToKey(currentHymn.id) \in DOMAIN notes.v
    /\ favorites.v # <<>> /\ DOMAIN moods.v # {}

====
